---- MODULE Spec2Model ----
(***************************************************************************)
(* Battleship contract (contracts/battleship/src/lib.rs): the keyed store  *)
(* (instance entries Hub and GameCount, persistent entries Game(id)), the  *)
(* outbound hub calls, and one action per contract entry point.  A call    *)
(* that panics is rolled back by the host and leaves no trace: it is a     *)
(* stuttering step.  Every *_err operator walks the entry point's          *)
(* assertions in source order and yields the panic message, or "ok".       *)
(***************************************************************************)
EXTENDS Integers, Sequences, FiniteSets, TLC

\* ---------------------------------------------------------------- bounds
\* Spec: ids a match can be stored under (new_game is cut off at this count).
MaxGames == 1
\* Spec: cap on each player's action counter pX_turns_taken.
MaxTurns == 5
\* SpecGame: cap on each player's action counter, enough for 18 reported hits.
MaxRounds == 18

\* ------------------------------------------------------- program constants
ZeroByte == 0
WinHits == 17
GridSize == 10
MaxSonarCount == 9
SonarMinTurns == 3

\* ------------------------------------------------------------ input sets
Address == {"A", "B", "C"}
Creators == {"A"}
Joiners == {"A", "B"}
HubAddress == {"H"}
\* env.current_contract_address(): this contract's own address.
ContractAddress == "battleship"
\* A BytesN<32> digest is modelled by one representative byte value; the
\* contract only ever compares digests with the all-zero one.
Hashes == {ZeroByte, 1}
\* (x, y) pairs passed to take_shot and use_sonar: the grid's two boundary
\* values in range, and each coordinate once out of range.
Shots == {<<0, 9>>, <<10, 0>>, <<9, 10>>}
Centers == {<<9, 0>>, <<10, 9>>, <<0, 10>>}
Counts == {9, 10}
GameIds == 1..(MaxGames + 1)

VARIABLES
    games,        \* persistent storage: DataKey::Game(id) -> Game
    count_store,  \* instance storage DataKey::GameCount: <<>> (absent) or <<n>>
    hub_store,    \* instance storage DataKey::Hub: <<>> (absent) or <<addr>>
    hub_calls,    \* outbound calls made on the hub, in order
    created,      \* history: number of new_game calls that returned
    hist          \* history, per stored match: who committed a board, who
                  \* made the take_shot / use_sonar that is still unreported,
                  \* how many use_sonar calls each side had accepted,
                  \* whether a claim_victory was accepted, and how many
                  \* start_game calls the match made

vars == <<games, count_store, hub_store, hub_calls, created, hist>>

\* ---------------------------------------------------------------- helpers
zero_hash == ZeroByte

unwrap_or(opt, d) == IF opt = <<>> THEN d ELSE opt[1]

has_game(id) == id \in DOMAIN games

game_count == unwrap_or(count_store, 0)

NewGameRecord(player1, count) ==
    [ player1 |-> player1,
      player2 |-> player1,
      board_hash1 |-> zero_hash,
      board_hash2 |-> zero_hash,
      boards_committed |-> 0,
      turn |-> 1,
      p1_hits |-> 0,
      p2_hits |-> 0,
      status |-> 0,
      session_id |-> count,
      awaiting_report |-> FALSE,
      last_shot_x |-> 0,
      last_shot_y |-> 0,
      p1_turns_taken |-> 0,
      p2_turns_taken |-> 0,
      p1_sonar_used |-> FALSE,
      p2_sonar_used |-> FALSE,
      awaiting_sonar |-> FALSE,
      sonar_center_x |-> 0,
      sonar_center_y |-> 0,
      last_sonar_count |-> 0 ]

save(id, game) ==
    games' = [i \in DOMAIN games \cup {id} |-> IF i = id THEN game ELSE games[i]]

\* History only: no entry point reads it.
NoOne == "-"
NewHist ==
    [committers |-> {}, shooter |-> NoOne, scanner |-> NoOne,
     scans |-> <<0, 0>>, claimed |-> FALSE, starts |-> 0]
note(id, h) ==
    hist' = [i \in DOMAIN hist \cup {id} |-> IF i = id THEN h ELSE hist[i]]

\* ------------------------------------------------------------- initialize
initialize_err ==
    IF hub_store # <<>> THEN "already initialized" ELSE "ok"

initialize(hub) ==
    /\ initialize_err = "ok"
    /\ hub_store' = <<hub>>
    /\ count_store' = <<0>>
    /\ UNCHANGED <<games, hub_calls, created, hist>>

\* --------------------------------------------------------------- new_game
new_game(player1) ==
    LET count == unwrap_or(count_store, 0) + 1 IN
    /\ save(count, NewGameRecord(player1, count))
    /\ count_store' = <<count>>
    /\ created' = created + 1
    /\ note(count, NewHist)
    /\ UNCHANGED <<hub_store, hub_calls>>

\* -------------------------------------------------------------- join_game
\* join_game's checks without the open-seat assertion.
join_game_err_again(id, player2) ==
    IF ~has_game(id) THEN "game not found"
    ELSE LET game == games[id] IN
         IF game.status # 0 THEN "game not in setup phase"
         ELSE IF player2 = game.player1 THEN "cannot join your own game"
         ELSE "ok"

join_game_err(id, player2) ==
    IF ~has_game(id) THEN "game not found"
    ELSE LET game == games[id] IN
         IF game.status # 0 THEN "game not in setup phase"
         ELSE IF game.player2 # game.player1 THEN "player 2 already joined"
         ELSE IF player2 = game.player1 THEN "cannot join your own game"
         ELSE "ok"

join_game(id, player2) ==
    /\ join_game_err(id, player2) = "ok"
    /\ save(id, [games[id] EXCEPT !.player2 = player2])
    /\ UNCHANGED <<count_store, hub_store, hub_calls, created, hist>>

\* ----------------------------------------------------------- commit_board
\* commit_board's checks without the branch for player2.
commit_board_err_creator_only(id, player, board_hash) ==
    IF ~has_game(id) THEN "game not found"
    ELSE LET game == games[id] IN
         IF game.status # 0 THEN "game not in setup phase"
         ELSE IF player = game.player1
              THEN IF game.board_hash1 # zero_hash
                   THEN "board already committed" ELSE "ok"
         ELSE "not a player in this game"

commit_board_err(id, player, board_hash) ==
    IF ~has_game(id) THEN "game not found"
    ELSE LET game == games[id] IN
         IF game.status # 0 THEN "game not in setup phase"
         ELSE IF player = game.player1
              THEN IF game.board_hash1 # zero_hash
                   THEN "board already committed" ELSE "ok"
         ELSE IF game.player2 # game.player1 /\ player = game.player2
              THEN IF game.board_hash2 # zero_hash
                   THEN "board already committed" ELSE "ok"
         ELSE "not a player in this game"

\* commit_board notifying the hub on every accepted commit, not only on the
\* one that starts the match.
commit_board_notify_each(id, player, board_hash) ==
    /\ commit_board_err(id, player, board_hash) = "ok"
    /\ LET game == games[id]
           g1 == IF player = game.player1
                 THEN [game EXCEPT !.board_hash1 = board_hash]
                 ELSE [game EXCEPT !.board_hash2 = board_hash]
           g2 == [g1 EXCEPT !.boards_committed = @ + 1]
           start == g2.boards_committed = 2
           g3 == IF start THEN [g2 EXCEPT !.status = 1] ELSE g2
       IN /\ save(id, g3)
          /\ hub_calls' =
               IF hub_store # <<>>
               THEN Append(hub_calls,
                           [fn |-> "start_game", contract |-> ContractAddress,
                            session_id |-> g3.session_id,
                            player1 |-> g3.player1, player2 |-> g3.player2,
                            reserved1 |-> 0, reserved2 |-> 0])
               ELSE hub_calls
    /\ note(id, [hist[id] EXCEPT !.committers = @ \cup {player},
                                 !.starts = @ + Len(hub_calls') - Len(hub_calls)])
    /\ UNCHANGED <<count_store, hub_store, created>>

\* commit_board starting the match on the first stored digest.
commit_board_early(id, player, board_hash) ==
    /\ commit_board_err(id, player, board_hash) = "ok"
    /\ LET game == games[id]
           g1 == IF player = game.player1
                 THEN [game EXCEPT !.board_hash1 = board_hash]
                 ELSE [game EXCEPT !.board_hash2 = board_hash]
           g2 == [g1 EXCEPT !.boards_committed = @ + 1]
           start == g2.boards_committed >= 1
           g3 == IF start THEN [g2 EXCEPT !.status = 1] ELSE g2
       IN /\ save(id, g3)
          /\ hub_calls' =
               IF start /\ hub_store # <<>>
               THEN Append(hub_calls,
                           [fn |-> "start_game", contract |-> ContractAddress,
                            session_id |-> g3.session_id,
                            player1 |-> g3.player1, player2 |-> g3.player2,
                            reserved1 |-> 0, reserved2 |-> 0])
               ELSE hub_calls
    /\ note(id, [hist[id] EXCEPT !.committers = @ \cup {player},
                                 !.starts = @ + Len(hub_calls') - Len(hub_calls)])
    /\ UNCHANGED <<count_store, hub_store, created>>

commit_board(id, player, board_hash) ==
    /\ commit_board_err(id, player, board_hash) = "ok"
    /\ LET game == games[id]
           g1 == IF player = game.player1
                 THEN [game EXCEPT !.board_hash1 = board_hash]
                 ELSE [game EXCEPT !.board_hash2 = board_hash]
           g2 == [g1 EXCEPT !.boards_committed = @ + 1]
           start == g2.boards_committed = 2
           g3 == IF start THEN [g2 EXCEPT !.status = 1] ELSE g2
       IN /\ save(id, g3)
          /\ hub_calls' =
               IF start /\ hub_store # <<>>
               THEN Append(hub_calls,
                           [fn |-> "start_game", contract |-> ContractAddress,
                            session_id |-> g3.session_id,
                            player1 |-> g3.player1, player2 |-> g3.player2,
                            reserved1 |-> 0, reserved2 |-> 0])
               ELSE hub_calls
    /\ note(id, [hist[id] EXCEPT !.committers = @ \cup {player},
                                 !.starts = @ + Len(hub_calls') - Len(hub_calls)])
    /\ UNCHANGED <<count_store, hub_store, created>>

\* -------------------------------------------------------------- take_shot
\* take_shot's checks with the turn assertion weakened to "is one of the two
\* players".
take_shot_err_either(id, player, x, y) ==
    IF ~has_game(id) THEN "game not found"
    ELSE LET game == games[id] IN
         IF game.status # 1 THEN "game not in progress"
         ELSE IF game.awaiting_report THEN "waiting for hit report"
         ELSE IF ~(x < GridSize /\ y < GridSize) THEN "shot out of bounds"
         ELSE IF player # game.player1 /\ player # game.player2 THEN "not your turn"
         ELSE "ok"

take_shot_err(id, player, x, y) ==
    IF ~has_game(id) THEN "game not found"
    ELSE LET game == games[id] IN
         IF game.status # 1 THEN "game not in progress"
         ELSE IF game.awaiting_report THEN "waiting for hit report"
         ELSE IF ~(x < GridSize /\ y < GridSize) THEN "shot out of bounds"
         ELSE IF game.turn = 1 /\ player # game.player1 THEN "not your turn"
         ELSE IF game.turn # 1 /\ player # game.player2 THEN "not your turn"
         ELSE "ok"

take_shot(id, player, x, y) ==
    /\ take_shot_err(id, player, x, y) = "ok"
    /\ LET game == games[id]
           g1 == [game EXCEPT !.last_shot_x = x, !.last_shot_y = y,
                              !.awaiting_report = TRUE]
           g2 == IF game.turn = 1
                 THEN [g1 EXCEPT !.p1_turns_taken = @ + 1]
                 ELSE [g1 EXCEPT !.p2_turns_taken = @ + 1]
       IN save(id, g2)
    /\ note(id, [hist[id] EXCEPT !.shooter = player])
    /\ UNCHANGED <<count_store, hub_store, hub_calls, created>>

\* ---------------------------------------------------------- report_result
report_result_err(id, player, hit) ==
    IF ~has_game(id) THEN "game not found"
    ELSE LET game == games[id] IN
         IF game.status # 1 THEN "game not in progress"
         ELSE IF ~game.awaiting_report THEN "no shot to report on"
         ELSE IF game.turn = 1 /\ player # game.player2 THEN "wrong player reporting"
         ELSE IF game.turn # 1 /\ player # game.player1 THEN "wrong player reporting"
         ELSE "ok"

report_result(id, player, hit) ==
    /\ report_result_err(id, player, hit) = "ok"
    /\ LET game == games[id]
           g1 == IF game.turn = 1
                 THEN [game EXCEPT !.p1_hits = IF hit THEN @ + 1 ELSE @]
                 ELSE [game EXCEPT !.p2_hits = IF hit THEN @ + 1 ELSE @]
           g2 == [g1 EXCEPT !.awaiting_report = FALSE,
                            !.turn = IF game.turn = 1 THEN 2 ELSE 1]
       IN save(id, g2)
    /\ note(id, [hist[id] EXCEPT !.shooter = NoOne])
    /\ UNCHANGED <<count_store, hub_store, hub_calls, created>>

\* ---------------------------------------------------------- claim_victory
\* claim_victory's checks with the two hit counters crossed: each side is
\* held to the opponent's counter.
claim_victory_err_crossed(id, player) ==
    IF ~has_game(id) THEN "game not found"
    ELSE LET game == games[id] IN
         IF game.status # 1 THEN "game not in progress"
         ELSE IF player = game.player1
              THEN IF game.p2_hits >= WinHits THEN "ok" ELSE "not enough hits to win"
         ELSE IF player = game.player2
              THEN IF game.p1_hits >= WinHits THEN "ok" ELSE "not enough hits to win"
         ELSE "not a player"

claim_victory_err(id, player) ==
    IF ~has_game(id) THEN "game not found"
    ELSE LET game == games[id] IN
         IF game.status # 1 THEN "game not in progress"
         ELSE IF player = game.player1
              THEN IF game.p1_hits >= WinHits THEN "ok" ELSE "not enough hits to win"
         ELSE IF player = game.player2
              THEN IF game.p2_hits >= WinHits THEN "ok" ELSE "not enough hits to win"
         ELSE "not a player"

claim_victory(id, player) ==
    /\ claim_victory_err(id, player) = "ok"
    /\ LET game == games[id]
           player1_won == (player = game.player1)
       IN /\ save(id, [game EXCEPT !.status = 2])
          /\ hub_calls' =
               IF hub_store # <<>>
               THEN Append(hub_calls,
                           [fn |-> "end_game", session_id |-> game.session_id,
                            player1_won |-> player1_won])
               ELSE hub_calls
    /\ note(id, [hist[id] EXCEPT !.claimed = TRUE])
    /\ UNCHANGED <<count_store, hub_store, created>>

\* -------------------------------------------------------- sonar_available
sonar_available(id, player) ==
    LET game == games[id] IN
    IF game.status # 1 \/ game.awaiting_report \/ game.awaiting_sonar THEN FALSE
    ELSE IF player = game.player1
         THEN IF game.turn # 1 \/ game.p1_sonar_used THEN FALSE
              ELSE game.p1_turns_taken >= SonarMinTurns
    ELSE IF player = game.player2
         THEN IF game.turn # 2 \/ game.p2_sonar_used THEN FALSE
              ELSE game.p2_turns_taken >= SonarMinTurns
    ELSE FALSE

\* -------------------------------------------------------------- use_sonar
\* use_sonar's checks without the two "sonar already used" assertions.
use_sonar_err_reusable(id, player, center_x, center_y) ==
    IF ~has_game(id) THEN "game not found"
    ELSE LET game == games[id] IN
         IF game.status # 1 THEN "game not in progress"
         ELSE IF game.awaiting_report THEN "waiting for hit report"
         ELSE IF game.awaiting_sonar THEN "waiting for sonar report"
         ELSE IF ~(center_x < GridSize /\ center_y < GridSize) THEN "sonar out of bounds"
         ELSE IF game.turn = 1
              THEN IF player # game.player1 THEN "not your turn"
                   ELSE IF ~(game.p1_turns_taken >= SonarMinTurns)
                        THEN "sonar not available this turn"
                   ELSE "ok"
         ELSE IF player # game.player2 THEN "not your turn"
              ELSE IF ~(game.p2_turns_taken >= SonarMinTurns)
                   THEN "sonar not available this turn"
              ELSE "ok"

\* use_sonar's checks with the turn-counter gate one action early.
use_sonar_err_early(id, player, center_x, center_y) ==
    IF ~has_game(id) THEN "game not found"
    ELSE LET game == games[id] IN
         IF game.status # 1 THEN "game not in progress"
         ELSE IF game.awaiting_report THEN "waiting for hit report"
         ELSE IF game.awaiting_sonar THEN "waiting for sonar report"
         ELSE IF ~(center_x < GridSize /\ center_y < GridSize) THEN "sonar out of bounds"
         ELSE IF game.turn = 1
              THEN IF player # game.player1 THEN "not your turn"
                   ELSE IF game.p1_sonar_used THEN "sonar already used"
                   ELSE IF ~(game.p1_turns_taken >= SonarMinTurns - 1)
                        THEN "sonar not available this turn"
                   ELSE "ok"
         ELSE IF player # game.player2 THEN "not your turn"
              ELSE IF game.p2_sonar_used THEN "sonar already used"
              ELSE IF ~(game.p2_turns_taken >= SonarMinTurns - 1)
                   THEN "sonar not available this turn"
              ELSE "ok"

use_sonar_err(id, player, center_x, center_y) ==
    IF ~has_game(id) THEN "game not found"
    ELSE LET game == games[id] IN
         IF game.status # 1 THEN "game not in progress"
         ELSE IF game.awaiting_report THEN "waiting for hit report"
         ELSE IF game.awaiting_sonar THEN "waiting for sonar report"
         ELSE IF ~(center_x < GridSize /\ center_y < GridSize) THEN "sonar out of bounds"
         ELSE IF game.turn = 1
              THEN IF player # game.player1 THEN "not your turn"
                   ELSE IF game.p1_sonar_used THEN "sonar already used"
                   ELSE IF ~(game.p1_turns_taken >= SonarMinTurns)
                        THEN "sonar not available this turn"
                   ELSE "ok"
         ELSE IF player # game.player2 THEN "not your turn"
              ELSE IF game.p2_sonar_used THEN "sonar already used"
              ELSE IF ~(game.p2_turns_taken >= SonarMinTurns)
                   THEN "sonar not available this turn"
              ELSE "ok"

use_sonar(id, player, center_x, center_y) ==
    /\ use_sonar_err(id, player, center_x, center_y) = "ok"
    /\ LET game == games[id]
           g1 == IF game.turn = 1
                 THEN [game EXCEPT !.p1_sonar_used = TRUE, !.p1_turns_taken = @ + 1]
                 ELSE [game EXCEPT !.p2_sonar_used = TRUE, !.p2_turns_taken = @ + 1]
           g2 == [g1 EXCEPT !.sonar_center_x = center_x,
                            !.sonar_center_y = center_y,
                            !.awaiting_sonar = TRUE]
       IN save(id, g2)
    /\ note(id, [hist[id] EXCEPT !.scanner = player,
                                 !.scans[games[id].turn] = @ + 1])
    /\ UNCHANGED <<count_store, hub_store, hub_calls, created>>

\* ----------------------------------------------------------- report_sonar
report_sonar_err(id, player, count) ==
    IF ~has_game(id) THEN "game not found"
    ELSE LET game == games[id] IN
         IF game.status # 1 THEN "game not in progress"
         ELSE IF ~game.awaiting_sonar THEN "no sonar to report on"
         ELSE IF ~(count <= MaxSonarCount) THEN "invalid sonar count"
         ELSE IF game.turn = 1 /\ player # game.player2 THEN "wrong player reporting"
         ELSE IF game.turn # 1 /\ player # game.player1 THEN "wrong player reporting"
         ELSE "ok"

\* report_sonar without the turn swap.
report_sonar_keeps_turn(id, player, count) ==
    /\ report_sonar_err(id, player, count) = "ok"
    /\ LET game == games[id]
       IN save(id, [game EXCEPT !.last_sonar_count = count,
                                !.awaiting_sonar = FALSE])
    /\ note(id, [hist[id] EXCEPT !.scanner = NoOne])
    /\ UNCHANGED <<count_store, hub_store, hub_calls, created>>

report_sonar(id, player, count) ==
    /\ report_sonar_err(id, player, count) = "ok"
    /\ LET game == games[id]
       IN save(id, [game EXCEPT !.last_sonar_count = count,
                                !.awaiting_sonar = FALSE,
                                !.turn = IF game.turn = 1 THEN 2 ELSE 1])
    /\ note(id, [hist[id] EXCEPT !.scanner = NoOne])
    /\ UNCHANGED <<count_store, hub_store, hub_calls, created>>

\* ---------------------------------------------------------- specification
Init ==
    /\ games = <<>>
    /\ count_store = <<>>
    /\ hub_store = <<>>
    /\ hub_calls = <<>>
    /\ created = 0
    /\ hist = <<>>

\* The shooter's action counter is below the cap (bounds the state space).
TurnsBelow(id, cap) ==
    has_game(id) =>
        IF games[id].turn = 1 THEN games[id].p1_turns_taken < cap
        ELSE games[id].p2_turns_taken < cap

Initialize == \E hub \in HubAddress : initialize(hub)

NewGame == \E p \in Creators : game_count < MaxGames /\ new_game(p)

\* SpecGame follows the match stored under id 1.
NewGameFirst == \E p \in Creators : game_count = 0 /\ new_game(p)

JoinGame(joiners) == \E id \in GameIds, p \in joiners : join_game(id, p)

CommitBoard(hashes) ==
    \E id \in GameIds, p \in Address, h \in hashes : commit_board(id, p, h)

TakeShot(cap) ==
    \E id \in GameIds, p \in Address, s \in Shots :
        TurnsBelow(id, cap) /\ take_shot(id, p, s[1], s[2])

ReportResult ==
    \E id \in GameIds, p \in Address, hit \in BOOLEAN : report_result(id, p, hit)

UseSonar(cap) ==
    \E id \in GameIds, p \in Address, s \in Centers :
        TurnsBelow(id, cap) /\ use_sonar(id, p, s[1], s[2])

ReportSonar ==
    \E id \in GameIds, p \in Address, c \in Counts : report_sonar(id, p, c)

ClaimVictory == \E id \in GameIds, p \in Address : claim_victory(id, p)

\* Setup and the first rounds of play, every input set in full.  MaxTurns
\* shots cannot make the WinHits hits claim_victory asks for, so no
\* claim_victory is accepted here: complete matches are SpecGame's.
Next ==
    \/ Initialize
    \/ NewGame
    \/ JoinGame(Joiners)
    \/ CommitBoard(Hashes)
    \/ TakeShot(MaxTurns)
    \/ ReportResult
    \/ UseSonar(MaxTurns)
    \/ ReportSonar

Spec == Init /\ [][Next]_vars

\* Next with a single stored id: new_game only while the counter reads 0, so
\* every match is stored under id 1 (again after initialize reset the
\* counter) and no two matches are in play side by side.
NextOne ==
    \/ Initialize
    \/ NewGameFirst
    \/ JoinGame(Joiners)
    \/ CommitBoard(Hashes)
    \/ TakeShot(MaxTurns)
    \/ ReportResult
    \/ UseSonar(MaxTurns)
    \/ ReportSonar

SpecOne == Init /\ [][NextOne]_vars

\* Every entry point, matches long enough to be won; the seat is taken by B
\* and boards are committed with a non-zero digest.
NextGame ==
    \/ Initialize
    \/ NewGameFirst
    \/ JoinGame({"B"})
    \/ CommitBoard({1})
    \/ TakeShot(MaxRounds)
    \/ ReportResult
    \/ UseSonar(MaxRounds)
    \/ ReportSonar
    \/ ClaimVictory

SpecGame == Init /\ [][NextGame]_vars

\* ------------------------------------------------------------------ claims
\* Per-match entry points accepted in the current state, over the input sets.
AcceptsJoin(id) == \E p \in Address : join_game_err(id, p) = "ok"
AcceptsCommit(id) == \E p \in Address, h \in Hashes : commit_board_err(id, p, h) = "ok"
AcceptsShot(id) == \E p \in Address, s \in Shots : take_shot_err(id, p, s[1], s[2]) = "ok"
AcceptsReport(id) == \E p \in Address, hit \in BOOLEAN : report_result_err(id, p, hit) = "ok"
AcceptsSonar(id) == \E p \in Address, s \in Centers : use_sonar_err(id, p, s[1], s[2]) = "ok"
AcceptsSonarReport(id) == \E p \in Address, c \in Counts : report_sonar_err(id, p, c) = "ok"
AcceptsVictory(id) == \E p \in Address : claim_victory_err(id, p) = "ok"

\* The step is an accepted per-match entry point addressed to id.
MatchStep(id) ==
    \/ \E p \in Address : join_game(id, p)
    \/ \E p \in Address, h \in Hashes : commit_board(id, p, h)
    \/ \E p \in Address, s \in Shots : take_shot(id, p, s[1], s[2])
    \/ \E p \in Address, hit \in BOOLEAN : report_result(id, p, hit)
    \/ \E p \in Address, s \in Centers : use_sonar(id, p, s[1], s[2])
    \/ \E p \in Address, c \in Counts : report_sonar(id, p, c)
    \/ \E p \in Address : claim_victory(id, p)

OwnHits(game, p) == IF p = game.player1 THEN game.p1_hits ELSE game.p2_hits

\* C1: at most one of awaiting_report and awaiting_sonar is set, and no
\* take_shot is accepted while a sonar report is outstanding.
C1_OneOutstanding ==
    \A id \in DOMAIN games :
        /\ ~(games[id].awaiting_report /\ games[id].awaiting_sonar)
        /\ games[id].awaiting_sonar => ~AcceptsShot(id)

\* C2: while a take_shot (resp. use_sonar) is unreported, the only per-match
\* call accepted is report_result (resp. report_sonar), and only from the
\* player who did not make it.
C2_OnlyMatchingReport ==
    \A id \in DOMAIN games :
        /\ hist[id].shooter # NoOne =>
             /\ ~AcceptsJoin(id) /\ ~AcceptsCommit(id) /\ ~AcceptsShot(id)
             /\ ~AcceptsSonar(id) /\ ~AcceptsSonarReport(id) /\ ~AcceptsVictory(id)
             /\ \A p \in Address, hit \in BOOLEAN :
                    report_result_err(id, p, hit) = "ok" => p # hist[id].shooter
        /\ hist[id].scanner # NoOne =>
             /\ ~AcceptsJoin(id) /\ ~AcceptsCommit(id) /\ ~AcceptsShot(id)
             /\ ~AcceptsSonar(id) /\ ~AcceptsReport(id) /\ ~AcceptsVictory(id)
             /\ \A p \in Address, c \in Counts :
                    report_sonar_err(id, p, c) = "ok" => p # hist[id].scanner

\* C3: boards_committed counts the non-zero board hashes, and a player whose
\* commit_board was accepted has no further commit_board accepted.
C3_CommittedCountsHashes ==
    \A id \in DOMAIN games :
        /\ games[id].boards_committed =
              (IF games[id].board_hash1 # zero_hash THEN 1 ELSE 0)
            + (IF games[id].board_hash2 # zero_hash THEN 1 ELSE 0)
        /\ \A p \in hist[id].committers, h \in Hashes :
               commit_board_err(id, p, h) # "ok"

\* C4: an outstanding shot or sonar report implies status = 1.
C4_AwaitingImpliesInProgress ==
    \A id \in DOMAIN games :
        (games[id].awaiting_report \/ games[id].awaiting_sonar)
            => games[id].status = 1

\* C5: after every step game_count() is the number of new_game calls that
\* succeeded, and the stored counter has not decreased.
C5_CountIsCreated ==
    [][game_count' = created' /\ game_count' >= game_count]_vars

\* C6: a stored match is never lost, new_game stores under an id that held
\* no record, and a record changes only by an accepted per-match call on it.
C6_RecordsKept ==
    [][/\ created' # created => game_count' \notin DOMAIN games
       /\ \A id \in DOMAIN games :
              /\ id \in DOMAIN games'
              /\ games'[id] # games[id] => MatchStep(id)]_vars

\* C7: status never decreases, becomes 2 only by an accepted claim_victory,
\* and a match with status 2 accepts no call and never changes.
C7_StatusForward ==
    [][\A id \in DOMAIN games :
          /\ games'[id].status >= games[id].status
          /\ (games'[id].status = 2 /\ games[id].status # 2)
                => \E p \in Address : claim_victory(id, p)
          /\ games[id].status = 2 =>
                /\ games'[id] = games[id]
                /\ ~AcceptsJoin(id) /\ ~AcceptsCommit(id) /\ ~AcceptsShot(id)
                /\ ~AcceptsReport(id) /\ ~AcceptsSonar(id)
                /\ ~AcceptsSonarReport(id) /\ ~AcceptsVictory(id)]_vars

\* C8: whenever claim_victory is accepted for a player that player has at
\* most WinHits hits, and the two hit counters sum to at most 2 * WinHits.
C8_HitsCapped ==
    \A id \in DOMAIN games :
        /\ games[id].p1_hits + games[id].p2_hits <= WinHits + WinHits
        /\ \A p \in Address :
               claim_victory_err(id, p) = "ok" => OwnHits(games[id], p) <= WinHits

\* C9: a report_result is accepted only from a player other than the one
\* whose take_shot is unreported, and a report_sonar only from a player
\* other than the one whose use_sonar is unreported.
C9_ReportByOpponent ==
    \A id \in DOMAIN games, p \in Address :
        /\ (\E hit \in BOOLEAN : report_result_err(id, p, hit) = "ok")
              => p # hist[id].shooter
        /\ (\E c \in Counts : report_sonar_err(id, p, c) = "ok")
              => p # hist[id].scanner

\* C10: claim_victory(id, X) is accepted only in a match with status 1, from
\* player1 or player2, whose own hit counter is at least WinHits; with fewer
\* hits a player's call panics "not enough hits to win", and a match with
\* status 2 has a player with WinHits hits.
C10_VictoryNeedsOwnHits ==
    \A id \in DOMAIN games :
        /\ games[id].status = 2 =>
              (games[id].p1_hits >= WinHits \/ games[id].p2_hits >= WinHits)
        /\ \A p \in Address :
              /\ claim_victory_err(id, p) = "ok" =>
                    /\ games[id].status = 1
                    /\ p \in {games[id].player1, games[id].player2}
                    /\ OwnHits(games[id], p) >= WinHits
              /\ ( /\ games[id].status = 1
                   /\ p \in {games[id].player1, games[id].player2}
                   /\ OwnHits(games[id], p) < WinHits )
                    => claim_victory_err(id, p) = "not enough hits to win"

\* C10 witness: a completed match whose player1 has WinHits hits while
\* player2 has scored some hits but fewer than WinHits.
C10_Witness ==
    \E id \in DOMAIN games :
        /\ games[id].status = 2
        /\ games[id].p1_hits >= WinHits
        /\ games[id].p2_hits < WinHits
        /\ games[id].p2_hits > 0

\* The step is a new_game that stores a new match under id.
Replaced(id) == created' # created /\ game_count' = id

\* The seat whose turn it is, its player, its action counter, its sonar flag.
TurnPlayer(game) == IF game.turn = 1 THEN game.player1 ELSE game.player2
TurnCounter(game) ==
    IF game.turn = 1 THEN game.p1_turns_taken ELSE game.p2_turns_taken
TurnSonarUsed(game) ==
    IF game.turn = 1 THEN game.p1_sonar_used ELSE game.p2_sonar_used
InRange(s) == s[1] < GridSize /\ s[2] < GridSize
Idle(game) == game.status = 1 /\ ~game.awaiting_report /\ ~game.awaiting_sonar

C12_SonarGate ==
    \A id \in DOMAIN games :
        /\ hist[id].scans[1] > 0 => games[id].p1_turns_taken > SonarMinTurns
        /\ hist[id].scans[2] > 0 => games[id].p2_turns_taken > SonarMinTurns
        /\ \A p \in Address, s \in Centers :
              LET err == use_sonar_err(id, p, s[1], s[2])
                  mine == Idle(games[id]) /\ InRange(s) /\ p = TurnPlayer(games[id])
              IN /\ err = "ok" =>
                       /\ p = TurnPlayer(games[id])
                       /\ TurnCounter(games[id]) >= SonarMinTurns
                 /\ (mine /\ TurnCounter(games[id]) < SonarMinTurns)
                       => err = "sonar not available this turn"
                 /\ ( /\ mine
                      /\ TurnCounter(games[id]) = SonarMinTurns
                      /\ ~TurnSonarUsed(games[id]) )
                       => err = "ok"

\* C12 witness: a use_sonar accepted from player2 at the first chance, its
\* counter going from SonarMinTurns to SonarMinTurns + 1, still unreported.
C12_Witness ==
    \E id \in DOMAIN games :
        /\ games[id].awaiting_sonar
        /\ games[id].turn = 2
        /\ hist[id].scanner = games[id].player2
        /\ games[id].p2_turns_taken = SonarMinTurns + 1

\* C13: while the seat is open (player2 = player1) commit_board from anyone
\* but player1 panics "not a player in this game", and the commits accepted
\* so far are player1's and left board_hash2 untouched.
C13_OpenSeatCommit ==
    \A id \in DOMAIN games :
        games[id].player2 = games[id].player1 =>
            /\ \A p \in Address \ {games[id].player1}, h \in Hashes :
                   commit_board_err(id, p, h) = "not a player in this game"
            /\ hist[id].committers \subseteq {games[id].player1}
            /\ games[id].board_hash2 = zero_hash

\* The start_game call the contract makes for a match record.
StartCall(game) ==
    [fn |-> "start_game", contract |-> ContractAddress,
     session_id |-> game.session_id,
     player1 |-> game.player1, player2 |-> game.player2,
     reserved1 |-> 0, reserved2 |-> 0]

\* The step moves the match stored under id from status 0 to status 1.
Starts(id) ==
    /\ id \in DOMAIN games
    /\ ~Replaced(id)
    /\ games[id].status = 0
    /\ games'[id].status = 1

\* C14: with a hub configured, the step that moves a match from status 0 to
\* status 1 is an accepted commit_board and appends exactly the call
\* start_game(contract, session_id, player1, player2, 0, 0); no other step
\* appends a start_game; so a match has made none while in setup and at most
\* one afterwards.
C14_StartGameOnce ==
    [][/\ \A id \in DOMAIN games :
             (Starts(id) /\ hub_store # <<>>) =>
                 /\ \E p \in Address, h \in Hashes : commit_board(id, p, h)
                 /\ hub_calls' = Append(hub_calls, StartCall(games'[id]))
                 /\ hist'[id].starts = 1
       /\ (\E c \in {hub_calls'[i] : i \in (DOMAIN hub_calls') \ (DOMAIN hub_calls)} :
               c.fn = "start_game")
             => \E id \in DOMAIN games : Starts(id) /\ hub_store # <<>>
       /\ \A id \in DOMAIN games' :
             /\ hist'[id].starts <= 1
             /\ games'[id].status = 0 => hist'[id].starts = 0]_vars

\* C14 witness: a two-player match just started with the hub configured: its
\* start_game is the last call the hub received.
C14_Witness ==
    \E id \in DOMAIN games :
        /\ games[id].status = 1
        /\ games[id].player2 # games[id].player1
        /\ games[id].p1_turns_taken = 0
        /\ hist[id].starts = 1
        /\ hub_calls # <<>>
        /\ hub_calls[Len(hub_calls)] = StartCall(games[id])

\* C15: turn is 1 or 2; within a match it changes only in a step that is an
\* accepted report_result or report_sonar, and each of those flips it; every
\* other accepted call on the match leaves it as it is.
C15_TurnFlipsOnReport ==
    [][\A id \in DOMAIN games' :
          /\ games'[id].turn \in {1, 2}
          /\ (id \in DOMAIN games /\ ~Replaced(id)) =>
                LET report ==
                      \/ \E p \in Address, hit \in BOOLEAN : report_result(id, p, hit)
                      \/ \E p \in Address, c \in Counts : report_sonar(id, p, c)
                IN /\ games'[id].turn # games[id].turn => report
                   /\ report => games'[id].turn = 3 - games[id].turn]_vars

\* C15 witness: player1's sonar round is complete (use_sonar and its report)
\* and the turn has passed to player2.
C15_Witness ==
    \E id \in DOMAIN games :
        /\ hist[id].scans = <<1, 0>>
        /\ ~games[id].awaiting_sonar /\ ~games[id].awaiting_report
        /\ games[id].last_sonar_count = MaxSonarCount
        /\ games[id].turn = 2

\* C16: in a match with status 1, no shot report outstanding and in-range
\* coordinates, take_shot from anyone but the player of the seat on turn
\* panics "not your turn"; and no step is a take_shot whose checks failed, so
\* the refused call leaves the store and the hub calls as they were.
C16_WrongTurnRefused ==
    [][/\ \A id \in DOMAIN games', p \in Address, s \in Shots :
             ( /\ games'[id].status = 1
               /\ ~games'[id].awaiting_report
               /\ InRange(s)
               /\ p # TurnPlayer(games[id])' )
                 => take_shot_err(id, p, s[1], s[2])' = "not your turn"
       /\ \A id \in GameIds, p \in Address, s \in Shots :
             take_shot_err(id, p, s[1], s[2]) # "ok"
                 => ~take_shot(id, p, s[1], s[2])]_vars

\* C16 witness: a two-player match in progress, player2 on turn after a full
\* round, nothing outstanding: player1's take_shot is refused "not your turn".
C16_Witness ==
    \E id \in DOMAIN games :
        /\ games[id].status = 1
        /\ games[id].player2 # games[id].player1
        /\ games[id].turn = 2
        /\ games[id].p2_turns_taken > 0
        /\ ~games[id].awaiting_report
        /\ \E s \in Shots :
               take_shot_err(id, games[id].player1, s[1], s[2]) = "not your turn"

\* C17: in every reachable state a match has status 1 exactly when
\* boards_committed = 2 and no claim_victory has been accepted on it; status 0
\* implies boards_committed < 2; boards_committed never exceeds 2.
C17_StatusTracksCommits ==
    \A id \in DOMAIN games :
        /\ games[id].status = 1 <=>
               (games[id].boards_committed = 2 /\ ~hist[id].claimed)
        /\ games[id].status = 0 => games[id].boards_committed < 2
        /\ games[id].boards_committed <= 2

\* C17 witness: a match that went through all three statuses: both digests
\* stored, a victory claimed, status 2.
C17_Witness ==
    \E id \in DOMAIN games :
        /\ games[id].boards_committed = 2
        /\ hist[id].claimed
        /\ games[id].status = 2

\* C18: within a match join_game is accepted at most once, only with status 0
\* and the seat open, and never for the creator, whose call panics "cannot
\* join your own game"; once player2 differs from player1, no call changes
\* player1 or player2 of that match and every further join_game is refused.
C18_JoinOnce ==
    [][/\ \A id \in DOMAIN games' :
             /\ games'[id].player2 # games'[id].player1 =>
                    \A p \in Address : join_game_err(id, p)' # "ok"
             /\ (games'[id].status = 0 /\ games'[id].player2 = games'[id].player1) =>
                    join_game_err(id, games[id].player1)' = "cannot join your own game"
       /\ \A id \in DOMAIN games :
             ~Replaced(id) =>
                 /\ \A p \in Address :
                        join_game(id, p) =>
                            /\ games[id].status = 0
                            /\ games[id].player2 = games[id].player1
                            /\ p # games[id].player1
                            /\ games'[id].player2 = p
                 /\ games[id].player2 # games[id].player1 =>
                        /\ games'[id].player1 = games[id].player1
                        /\ games'[id].player2 = games[id].player2
                 /\ games'[id].player2 # games[id].player2 =>
                        \E p \in Address : join_game(id, p)]_vars

\* C18 witness: a match whose seat was filled by join_game and which then went
\* on to be played: player2 still the joiner, and any join_game is refused.
C18_Witness ==
    \E id \in DOMAIN games :
        /\ games[id].player2 # games[id].player1
        /\ games[id].status = 1
        /\ games[id].p1_turns_taken > 0
        /\ \A p \in Address : join_game_err(id, p) # "ok"

\* C19: every match with status >= 1 has two distinct players, and no
\* start_game call was made with player1 = player2.
C19_TwoPlayers ==
    /\ \A id \in DOMAIN games :
           games[id].status >= 1 => games[id].player2 # games[id].player1
    /\ \A i \in 1..Len(hub_calls) :
           hub_calls[i].fn = "start_game" =>
               hub_calls[i].player1 # hub_calls[i].player2

\* C20: in every reachable state each seat's hit count is at most that
\* seat's own action counter.
C20_HitsWithinTurns ==
    \A id \in DOMAIN games :
        /\ games[id].p1_hits <= games[id].p1_turns_taken
        /\ games[id].p2_hits <= games[id].p2_turns_taken

\* C21: in every reachable state, for every match id and principal p,
\* sonar_available(id, p) returns true exactly when use_sonar(id, p, cx, cy)
\* with in-range coordinates would be accepted. For an id with no record
\* sonar_available panics, so it does not return true.
C21_SonarAvailableAgrees ==
    \A id \in GameIds, p \in Address, c \in Centers :
        InRange(c) =>
            ((has_game(id) /\ sonar_available(id, p))
                 <=> use_sonar_err(id, p, c[1], c[2]) = "ok")

\* C22: in the sequence of hub calls, every end_game for a session_id is
\* preceded by a start_game for the same session_id, and no session_id gets
\* more than one end_game.
C22_HubLifecycle ==
    \A i \in 1..Len(hub_calls) :
        hub_calls[i].fn = "end_game" =>
            /\ \E j \in 1..(i - 1) :
                   /\ hub_calls[j].fn = "start_game"
                   /\ hub_calls[j].session_id = hub_calls[i].session_id
            /\ \A j \in 1..Len(hub_calls) :
                   (j # i /\ hub_calls[j].fn = "end_game") =>
                       hub_calls[j].session_id # hub_calls[i].session_id

\* C23: in every reachable state a match with status # 2 accepts some
\* mutating call: join_game or commit_board in setup, take_shot from the
\* player on turn when nothing is outstanding, report_result while a shot is
\* unreported, report_sonar while a sonar is unreported.
C23_NeverStuck ==
    \A id \in DOMAIN games :
        games[id].status # 2 =>
            /\ games[id].status \in {0, 1}
            /\ games[id].status = 0 => (AcceptsJoin(id) \/ AcceptsCommit(id))
            /\ Idle(games[id]) =>
                   \E s \in Shots :
                       take_shot_err(id, TurnPlayer(games[id]), s[1], s[2]) = "ok"
            /\ (games[id].status = 1 /\ games[id].awaiting_report) => AcceptsReport(id)
            /\ (games[id].status = 1 /\ games[id].awaiting_sonar) => AcceptsSonarReport(id)

\* C23 witness: a match in setup with the seat filled and one digest stored,
\* where join_game is refused to everyone and the one call still accepted is
\* the other player's commit_board.
C23_Witness ==
    \E id \in DOMAIN games :
        /\ games[id].status = 0
        /\ games[id].player2 # games[id].player1
        /\ games[id].boards_committed = 1
        /\ ~AcceptsJoin(id)
        /\ AcceptsCommit(id)

====
